---- MODULE Spec2Model ----
(***************************************************************************)
(* Magnitude-subtraction kernels of num-bigint (src/algorithms/sub.rs).    *)
(*                                                                         *)
(* A magnitude is a little-endian sequence of digits (index 1 is the       *)
(* least-significant digit).  Every routine of sub.rs is an operator that  *)
(* is computed the way the code computes it; the state machine calls the   *)
(* routines on all operands within the bounds and records what each call   *)
(* returned, what it left in the mutated buffer and whether it panicked.   *)
(*                                                                         *)
(* The digit width BITS is 32 or 64 in the crate; the model runs the same  *)
(* code on narrow digits, with the accumulator kept at twice the digit     *)
(* width and wrapped to that width as the machine type is.                 *)
(***************************************************************************)
EXTENDS Integers, Sequences, FiniteSets, TLC

VARIABLES
    pc,       \* the routine that was called last ("idle" before any call,
              \* "loaded" once the caller has chosen the slices to pass)
    a,        \* first slice operand as passed by the caller
    b,        \* second slice operand as passed by the caller
    x,        \* digit operand a of sbb
    y,        \* digit operand b of sbb and of __sub_scalar
    acc0,     \* borrow accumulator on entry to sbb
    acc,      \* borrow accumulator on return from sbb
    lo,       \* digit returned by sbb
    ovf,      \* an accumulator operation left the SignedDoubleBigDigit range
    ra,       \* contents of a's buffer after the call
    rb,       \* contents of b's buffer after the call
    ret,      \* boolean returned by __sub_scalar and by __sub2
    aborted,  \* the call panicked on an assertion
    res,      \* (Sign, BigUint) returned by sub_sign
    dbg       \* the call ran in a build with debug assertions

vars == <<pc, a, b, x, y, acc0, acc, lo, ovf, ra, rb, ret, aborted, res, dbg>>

----------------------------------------------------------------------------
(* Bounds and machine types                                             *)
(*                                                                         *)
(* A loop is a recursive operator on the loop's state.  It is written      *)
(*     CHOOSE r \in { loop(v, ...) : v \in {step(st)} } : TRUE              *)
(* which is loop(step(st), ...) with the state after the step computed     *)
(* once, before the next iteration runs on it.                             *)

\* longest slice handed to a routine
MaxLen == 3

\* zero digits appended when normalization invariance is examined
MaxPad == 2

\* big_digit::BITS, the digit width
BITS == 2

\* width of SignedDoubleBigDigit
AccBits == 2 * BITS

Pow2(n) == 2 ^ n

Base == Pow2(BITS)

\* BigDigit
BigDigit == 0 .. (Base - 1)

AccMin == 0 - Pow2(AccBits - 1)

AccMax == Pow2(AccBits - 1) - 1

\* two's-complement wrap of an integer to SignedDoubleBigDigit
WrapAcc(v) == ((v - AccMin) % Pow2(AccBits)) + AccMin

InAcc(v) == AccMin <= v /\ v <= AccMax

Min(m, n) == IF m < n THEN m ELSE n

\* all slices of at most n digits
Slices(n) == UNION { [1 .. k -> BigDigit] : k \in 0 .. n }

Zeros(n) == [i \in 1 .. n |-> 0]

\* the unsigned integer a slice denotes
RECURSIVE Value(_)
Value(s) == IF Len(s) = 0 THEN 0 ELSE s[1] + Base * Value(Tail(s))

----------------------------------------------------------------------------
(* sbb: subtract with borrow *)

\* sbb with the accumulator shifted as an unsigned value
sbb_logical_shift(da, db, borrow) ==
    LET w2 == WrapAcc(WrapAcc(borrow + da) - db)
    IN  [ lo  |-> w2 % Base,
          acc |-> (w2 % Pow2(AccBits)) \div Base,
          ovf |-> ~InAcc(borrow + da) \/ ~InAcc(WrapAcc(borrow + da) - db) ]

sbb(da, db, borrow) ==
    LET t1 == borrow + da                  \* *acc += a
        w1 == WrapAcc(t1)
        t2 == w1 - db                      \* *acc -= b
        w2 == WrapAcc(t2)
    IN  [ lo  |-> w2 % Base,               \* *acc as BigDigit
          acc |-> w2 \div Base,            \* *acc >>= BITS (arithmetic)
          ovf |-> ~InAcc(t1) \/ ~InAcc(t2) ]

----------------------------------------------------------------------------
(* is_zero *)

is_zero(s) == IF Len(s) = 0 THEN TRUE ELSE \A i \in 1 .. Len(s) : s[i] = 0

----------------------------------------------------------------------------
(* __sub_scalar: a -= b for a scalar b *)

\* scalar_step without bw = overflow as BigDigit
scalar_step_keep_bw(st, i) ==
    [ a |-> [st.a EXCEPT ![i] = (st.a[i] - st.bw) % Base],
      bw |-> st.bw,
      brk |-> ~(st.a[i] < st.bw) ]

\* one iteration of the loop on digit i; st is [a, bw], brk is the break
scalar_step(st, i) ==
    LET overflow == st.a[i] < st.bw              \* ai.overflowing_sub(bw)
        tmp == (st.a[i] - st.bw) % Base
    IN  [ a |-> [st.a EXCEPT ![i] = tmp],        \* *ai = tmp
          bw |-> IF overflow THEN 1 ELSE 0,      \* bw = overflow as BigDigit
          brk |-> ~overflow ]

\* for ai in a.iter_mut() { ...; if !overflow { break } }
RECURSIVE scalar_loop(_, _)
scalar_loop(st, i) ==
    IF i > Len(st.a) \/ st.brk THEN st
    ELSE CHOOSE r \in { scalar_loop(v, i + 1) : v \in {scalar_step(st, i)} } : TRUE

__sub_scalar(s, d) ==
    LET r == scalar_loop([a |-> s, bw |-> d, brk |-> FALSE], 1)
    IN  [a |-> r.a, borrow |-> r.bw > 0, ovf |-> FALSE]

----------------------------------------------------------------------------
(* __sub2: a -= b, reporting the borrow *)

\* *a = sbb(*a, d, &mut borrow) on digit i; st is [a, borrow, ovf]
sbb_at(st, i, d) ==
    LET r == sbb(st.a[i], d, st.borrow)
    IN  [a |-> [st.a EXCEPT ![i] = r.lo], borrow |-> r.acc, ovf |-> st.ovf \/ r.ovf]

\* for (a, b) in a_lo.iter_mut().zip(b_lo) { *a = sbb(*a, *b, &mut borrow) }
RECURSIVE zip_loop(_, _, _, _)
zip_loop(st, t, i, len) ==
    IF i > len THEN st
    ELSE CHOOSE r \in { zip_loop(v, t, i + 1, len) : v \in {sbb_at(st, i, t[i])} } : TRUE

\* for a in a_hi { *a = sbb(*a, 0, &mut borrow); if borrow == 0 { break } }
RECURSIVE hi_loop(_, _)
hi_loop(st, i) ==
    IF i > Len(st.a) THEN st
    ELSE CHOOSE r \in { IF v.borrow = 0 THEN v ELSE hi_loop(v, i + 1) :
                         v \in {sbb_at(st, i, 0)} } : TRUE

\* sub2_tail without the propagation of the borrow into a_hi
sub2_tail_no_hi(z, len) == [a |-> z.a, borrow |-> z.borrow # 0, ovf |-> z.ovf]

\* the part of __sub2 after the two early returns; z is the state after the zip
sub2_tail(z, len) ==
    LET h == IF z.borrow # 0 THEN hi_loop(z, len + 1) ELSE z
    IN  [a |-> h.a, borrow |-> h.borrow # 0, ovf |-> h.ovf]

__sub2(s, t) ==
    IF Len(t) = 1 THEN __sub_scalar(s, t[1])
    ELSE IF is_zero(s) THEN [a |-> s, borrow |-> ~is_zero(t), ovf |-> FALSE]
    ELSE LET len == Min(Len(s), Len(t))
             st0 == [a |-> s, borrow |-> 0, ovf |-> FALSE]
         IN  CHOOSE r \in { sub2_tail(z, len) : z \in {zip_loop(st0, t, 1, len)} } : TRUE

----------------------------------------------------------------------------
(* sub2: a -= b, fails on underflow *)

sub2(s, t) ==
    LET r == __sub2(s, t)                        \* let borrow = __sub2(a, b)
    IN  [ a |-> r.a, borrow |-> r.borrow,
          aborted |-> ~(~r.borrow),              \* assert!(!borrow, ...)
          ovf |-> r.ovf ]

----------------------------------------------------------------------------
(* __sub2rev and sub2rev: b := a - b *)

\* for (ai, bi) in a.iter().zip(b) { *bi = sbb(*ai, *bi, &mut borrow) }
\* sbb_rev_at with the operands of sbb exchanged
sbb_rev_at_swapped(st, i, d) ==
    LET r == sbb(st.b[i], d, st.borrow)
    IN  [b |-> [st.b EXCEPT ![i] = r.lo], borrow |-> r.acc, ovf |-> st.ovf \/ r.ovf]

\* *bi = sbb(*ai, *bi, &mut borrow) on digit i; st is [b, borrow, ovf]
sbb_rev_at(st, i, d) ==
    LET r == sbb(d, st.b[i], st.borrow)
    IN  [b |-> [st.b EXCEPT ![i] = r.lo], borrow |-> r.acc, ovf |-> st.ovf \/ r.ovf]

RECURSIVE rev_loop(_, _, _, _)
rev_loop(s, st, i, len) ==
    IF i > len THEN st
    ELSE CHOOSE r \in { rev_loop(s, v, i + 1, len) :
                         v \in {sbb_rev_at(st, i, s[i])} } : TRUE

\* debug is TRUE in a build with debug assertions
__sub2rev(s, t, debug) ==
    IF debug /\ Len(t) # Len(s)
    THEN [b |-> t, borrow |-> FALSE, aborted |-> TRUE, ovf |-> FALSE]
    ELSE LET r == rev_loop(s, [b |-> t, borrow |-> 0, ovf |-> FALSE], 1,
                           Min(Len(s), Len(t)))
         IN  [b |-> r.b, borrow |-> r.borrow # 0, aborted |-> FALSE, ovf |-> r.ovf]

\* sub2rev that asserts !borrow only, not that b_hi is all zero
sub2rev_no_hi_check(s, t, debug) ==
    IF debug /\ ~(Len(t) >= Len(s))
    THEN [b |-> t, aborted |-> TRUE, ovf |-> FALSE]
    ELSE LET len == Min(Len(s), Len(t))
             r == __sub2rev(SubSeq(s, 1, len), SubSeq(t, 1, len), debug)
         IN  [ b |-> r.b \o SubSeq(t, len + 1, Len(t)),
               aborted |-> r.aborted \/ Len(s) > len \/ r.borrow,
               ovf |-> r.ovf ]

sub2rev(s, t, debug) ==
    IF debug /\ ~(Len(t) >= Len(s))
    THEN [b |-> t, aborted |-> TRUE, ovf |-> FALSE]
    ELSE LET len == Min(Len(s), Len(t))
             a_lo == SubSeq(s, 1, len)
             a_hi == SubSeq(s, len + 1, Len(s))
             b_lo == SubSeq(t, 1, len)
             b_hi == SubSeq(t, len + 1, Len(t))
             r == __sub2rev(a_lo, b_lo, debug)
         IN  [ b |-> r.b \o b_hi,
               aborted |-> \/ r.aborted
                           \/ Len(a_hi) # 0
                           \/ ~(~r.borrow /\ \A i \in 1 .. Len(b_hi) : b_hi[i] = 0),
               ovf |-> r.ovf ]

----------------------------------------------------------------------------
(* sub_sign and the routines of the crate it calls *)

\* a.iter().rposition(|&x| x != 0).map_or(0, |i| i + 1)
RECURSIVE rposition_len(_, _)
rposition_len(s, i) ==
    IF i = 0 THEN 0
    ELSE IF s[i] # 0 THEN i
    ELSE rposition_len(s, i - 1)

\* rposition(|&x| x == 0): the predicate of the search inverted
RECURSIVE rposition_zero_len(_, _)
rposition_zero_len(s, i) ==
    IF i = 0 THEN 0
    ELSE IF s[i] = 0 THEN i
    ELSE rposition_zero_len(s, i - 1)

Normalize_eq(s) == SubSeq(s, 1, rposition_zero_len(s, Len(s)))

Normalize(s) == SubSeq(s, 1, rposition_len(s, Len(s)))

\* algorithms::cmp_slice: most-significant digit first, a missing digit reads as 0
RECURSIVE cmp_from(_, _, _)
cmp_from(s, t, i) ==
    IF i = 0 THEN "Equal"
    ELSE LET ds == IF i <= Len(s) THEN s[i] ELSE 0
             dt == IF i <= Len(t) THEN t[i] ELSE 0
         IN  IF ds > dt THEN "Greater"
             ELSE IF ds < dt THEN "Less"
             ELSE cmp_from(s, t, i - 1)

cmp_slice(s, t) == cmp_from(s, t, IF Len(s) > Len(t) THEN Len(s) ELSE Len(t))

\* BigUint::new_native: wraps the digits and drops most-significant zero digits
RECURSIVE new_native(_)
new_native(s) ==
    IF Len(s) > 0 /\ s[Len(s)] = 0 THEN new_native(SubSeq(s, 1, Len(s) - 1))
    ELSE s

\* sub_sign with Plus and Minus exchanged
sub_sign_signs_swapped(s, t) ==
    LET na == Normalize(s)
        nb == Normalize(t)
        c == cmp_slice(na, nb)
    IN  IF c = "Greater"
        THEN LET r == sub2(na, nb)
             IN  [ sign |-> "Minus", mag |-> new_native(r.a),
                   aborted |-> r.aborted, ovf |-> r.ovf ]
        ELSE IF c = "Less"
        THEN LET r == sub2(nb, na)
             IN  [ sign |-> "Plus", mag |-> new_native(r.a),
                   aborted |-> r.aborted, ovf |-> r.ovf ]
        ELSE [sign |-> "NoSign", mag |-> <<>>, aborted |-> FALSE, ovf |-> FALSE]

\* sub_sign with the Equal ordering handled by the Greater arm
sub_sign_equal_as_greater(s, t) ==
    LET na == Normalize(s)
        nb == Normalize(t)
        c == cmp_slice(na, nb)
    IN  IF c = "Greater" \/ c = "Equal"
        THEN LET r == sub2(na, nb)
             IN  [ sign |-> "Plus", mag |-> new_native(r.a),
                   aborted |-> r.aborted, ovf |-> r.ovf ]
        ELSE LET r == sub2(nb, na)
             IN  [ sign |-> "Minus", mag |-> new_native(r.a),
                   aborted |-> r.aborted, ovf |-> r.ovf ]

\* sub_sign whose Less arm subtracts b from a, as the Greater arm does
sub_sign_unswapped(s, t) ==
    LET na == Normalize(s)
        nb == Normalize(t)
        c == cmp_slice(na, nb)
    IN  IF c = "Greater"
        THEN LET r == sub2(na, nb)
             IN  [ sign |-> "Plus", mag |-> new_native(r.a),
                   aborted |-> r.aborted, ovf |-> r.ovf ]
        ELSE IF c = "Less"
        THEN LET r == sub2(na, nb)
             IN  [ sign |-> "Minus", mag |-> new_native(r.a),
                   aborted |-> r.aborted, ovf |-> r.ovf ]
        ELSE [sign |-> "NoSign", mag |-> <<>>, aborted |-> FALSE, ovf |-> FALSE]

sub_sign(s, t) ==
    LET na == Normalize(s)
        nb == Normalize(t)
        c == cmp_slice(na, nb)
    IN  IF c = "Greater"
        THEN LET r == sub2(na, nb)
             IN  [ sign |-> "Plus", mag |-> new_native(r.a),
                   aborted |-> r.aborted, ovf |-> r.ovf ]
        ELSE IF c = "Less"
        THEN LET r == sub2(nb, na)
             IN  [ sign |-> "Minus", mag |-> new_native(r.a),
                   aborted |-> r.aborted, ovf |-> r.ovf ]
        ELSE [sign |-> "NoSign", mag |-> <<>>, aborted |-> FALSE, ovf |-> FALSE]

----------------------------------------------------------------------------
Init ==
    /\ pc = "idle"
    /\ a = <<>>
    /\ b = <<>>
    /\ x = 0
    /\ y = 0
    /\ acc0 = 0
    /\ acc = 0
    /\ lo = 0
    /\ ovf = FALSE
    /\ ra = <<>>
    /\ rb = <<>>
    /\ ret = FALSE
    /\ aborted = FALSE
    /\ res = [sign |-> "NoSign", mag |-> <<>>]
    /\ dbg = FALSE

\* one more sbb of a chain that started with the accumulator at 0
Sbb ==
    /\ pc \in {"idle", "sbb"}
    /\ \E da \in BigDigit, db \in BigDigit :
          LET r == sbb(da, db, acc)
          IN  /\ pc' = "sbb"
              /\ x' = da
              /\ y' = db
              /\ acc0' = acc
              /\ acc' = r.acc
              /\ lo' = r.lo
              /\ ovf' = r.ovf
    /\ UNCHANGED <<a, b, ra, rb, ret, aborted, res, dbg>>

SubScalar ==
    /\ pc = "idle"
    /\ \E s \in Slices(MaxLen), d \in BigDigit :
          LET r == __sub_scalar(s, d)
          IN  /\ pc' = "__sub_scalar"
              /\ a' = s
              /\ y' = d
              /\ ra' = r.a
              /\ ret' = r.borrow
              /\ ovf' = r.ovf
    /\ UNCHANGED <<b, x, acc0, acc, lo, rb, aborted, res, dbg>>

\* the caller hands two slices to one of the routines below
Load ==
    /\ pc = "idle"
    /\ \E s \in Slices(MaxLen), t \in Slices(MaxLen) :
          /\ a' = s
          /\ b' = t
          /\ ra' = s
          /\ rb' = t
    /\ pc' = "loaded"
    /\ UNCHANGED <<x, y, acc0, acc, lo, ovf, ret, aborted, res, dbg>>

\* sub2, with the borrow that its call of __sub2 returned
Sub2 ==
    /\ pc = "loaded"
    /\ LET r == sub2(a, b)
       IN  /\ pc' = "sub2"
           /\ ra' = r.a
           /\ ret' = r.borrow
           /\ aborted' = r.aborted
           /\ ovf' = r.ovf
    /\ UNCHANGED <<a, b, x, y, acc0, acc, lo, rb, res, dbg>>

Sub2Rev ==
    /\ pc = "loaded"
    /\ \E debug \in BOOLEAN :
          LET r == sub2rev(a, b, debug)
          IN  /\ pc' = "sub2rev"
              /\ rb' = r.b
              /\ aborted' = r.aborted
              /\ ovf' = r.ovf
              /\ dbg' = debug
    /\ UNCHANGED <<a, b, x, y, acc0, acc, lo, ra, ret, res>>

SubSign ==
    /\ pc = "loaded"
    /\ LET r == sub_sign(a, b)
       IN  /\ pc' = "sub_sign"
           /\ aborted' = r.aborted
           /\ ovf' = r.ovf
           /\ res' = [sign |-> r.sign, mag |-> r.mag]
    /\ UNCHANGED <<a, b, x, y, acc0, acc, lo, ra, rb, ret, dbg>>

Next ==
    \/ Sbb
    \/ SubScalar
    \/ Load
    \/ Sub2
    \/ Sub2Rev
    \/ SubSign

Spec == Init /\ [][Next]_vars

\* the calls of sub_sign alone
NextSubSign ==
    \/ Load
    \/ SubSign

SpecSubSign == Init /\ [][NextSubSign]_vars

\* the calls of sub2rev alone
NextSub2Rev ==
    \/ Load
    \/ Sub2Rev

SpecSub2Rev == Init /\ [][NextSub2Rev]_vars

----------------------------------------------------------------------------
(* Properties *)

\* no most-significant zero digit
IsNormalized(s) == Len(s) = 0 \/ s[Len(s)] # 0

\* C1: on normalized operands sub_sign returns the signed difference: Plus
\* with value(a) - value(b) when a is greater, Minus with value(b) - value(a)
\* when a is less, NoSign with the zero magnitude when they are equal.
SubSignIsSignedDifference ==
    (pc = "sub_sign" /\ IsNormalized(a) /\ IsNormalized(b)) =>
        /\ ~aborted
        /\ Value(a) > Value(b) =>
              res.sign = "Plus" /\ Value(res.mag) = Value(a) - Value(b)
        /\ Value(a) < Value(b) =>
              res.sign = "Minus" /\ Value(res.mag) = Value(b) - Value(a)
        /\ Value(a) = Value(b) => res.sign = "NoSign" /\ res.mag = <<>>

SubSignBorrowsAcrossDigits ==
    /\ pc = "sub_sign"
    /\ a = <<0, 0, 1>>
    /\ b = <<1, 1>>
    /\ res = [sign |-> "Plus", mag |-> <<Base - 1, Base - 2>>]

\* C2: the strict forward subtractor fails on every underflow: whenever
\* value(a) < value(b), whatever the lengths, __sub2 returns true and sub2
\* panics.
Sub2FailsOnEveryUnderflow ==
    (pc = "sub2" /\ Value(a) < Value(b)) => ret /\ aborted

\* C3: for any operands the sign of sub_sign is NoSign exactly when the
\* magnitude returned is zero, which is exactly when value(a) = value(b);
\* sub_sign(a, a) is (NoSign, zero).
SignIsNoSignIffZero ==
    pc = "sub_sign" =>
        /\ ~aborted
        /\ res.sign = "NoSign" <=> Value(res.mag) = 0
        /\ Value(res.mag) = 0 <=> Value(a) = Value(b)
        /\ a = b => res = [sign |-> "NoSign", mag |-> <<>>]

EqualValuesUnnormalized ==
    /\ pc = "sub_sign"
    /\ a = <<1, 0>>
    /\ b = <<1>>
    /\ res.sign = "NoSign"

\* C4: sub_sign never fails: the assertion of sub2 holds on the Greater and
\* on the Less branch, for empty, all-zero and unnormalized operands too.
SubSignNeverPanics == pc = "sub_sign" => ~aborted /\ ~ovf

LessBranchUnnormalized ==
    /\ pc = "sub_sign"
    /\ a = <<3, 0>>
    /\ b = <<0, 1, 0>>
    /\ res.sign = "Minus"
    /\ ~aborted

\* C5: appending zero digits at the most-significant end of either operand
\* changes neither the sign nor the magnitude sub_sign returns.
NormalizationInvariance ==
    pc = "sub_sign" =>
        \A j \in 0 .. MaxPad, k \in 0 .. MaxPad :
            LET r == sub_sign(a \o Zeros(j), b \o Zeros(k))
            IN  /\ ~r.aborted
                /\ r.sign = res.sign
                /\ Value(r.mag) = Value(res.mag)

PaddedOperandsAgree ==
    /\ pc = "sub_sign"
    /\ a = <<2>>
    /\ b = <<3, 1>>
    /\ res.sign = "Minus"
    /\ sub_sign(<<2, 0, 0>>, <<3, 1, 0>>).sign = "Minus"
    /\ sub_sign(<<2, 0, 0>>, <<3, 1, 0>>).mag = res.mag

\* C6: when value(a) >= value(b), sub2 returns without panicking, keeps the
\* length of a, and leaves value(a) - value(b) in a, so that adding value(b)
\* gives the old value of a back.
Sub2RoundTrip ==
    (pc = "sub2" /\ Value(a) >= Value(b)) =>
        /\ ~aborted
        /\ ~ovf
        /\ Len(ra) = Len(a)
        /\ Value(ra) = Value(a) - Value(b)
        /\ Value(ra) + Value(rb) = Value(a)

Sub2LongerSubtrahend ==
    /\ pc = "sub2"
    /\ a = <<1, 2>>
    /\ b = <<2, 1, 0>>
    /\ ~aborted
    /\ ra = <<3, 0>>

\* C7 as stated: for equal-length a and b with value(a) <= value(b), sub2rev
\* completes and leaves in b the magnitude sub_sign computes for b - a.
Sub2RevGivesBMinusA ==
    (pc = "sub2rev" /\ Len(a) = Len(b) /\ Value(a) <= Value(b)) =>
        /\ ~aborted
        /\ Value(rb) = Value(sub_sign(b, a).mag)

\* C7 amended: for equal-length a and b with value(a) >= value(b), sub2rev
\* completes and leaves in b the magnitude sub_sign computes for a - b; with
\* value(a) < value(b) it panics.
Sub2RevGivesAMinusB ==
    (pc = "sub2rev" /\ Len(a) = Len(b)) =>
        /\ Value(a) >= Value(b) =>
              /\ ~aborted
              /\ ~sub_sign(a, b).aborted
              /\ Value(rb) = Value(sub_sign(a, b).mag)
        /\ Value(a) < Value(b) => aborted

Sub2RevEqualLength ==
    /\ pc = "sub2rev"
    /\ a = <<0, 0, 1>>
    /\ b = <<1, 0, 0>>
    /\ ~aborted
    /\ rb = <<Base - 1, Base - 1, 0>>
    /\ sub_sign(a, b).mag = <<Base - 1, Base - 1>>

\* C8: with len(b) >= len(a), sub2rev panics exactly when value(a) <
\* value(b); when it returns, b holds value(a) - value(b) at its old length
\* and a is as it was.  With len(a) > len(b) it always panics.
Sub2RevPanicsIffUnderflow ==
    pc = "sub2rev" =>
        /\ Len(b) >= Len(a) =>
              /\ aborted <=> Value(a) < Value(b)
              /\ ~aborted =>
                    /\ Value(rb) = Value(a) - Value(b)
                    /\ Len(rb) = Len(b)
                    /\ ra = a
        /\ Len(a) > Len(b) => aborted

Sub2RevLongerBuffer ==
    /\ pc = "sub2rev"
    /\ a = <<1, 1>>
    /\ b = <<2, 0, 0>>
    /\ ~aborted
    /\ rb = <<Base - 1, 0, 0>>

\* the first position whose digit takes the borrow without overflowing
\* (Len(s) + 1 when there is none)
RECURSIVE AbsorbFrom(_, _)
AbsorbFrom(s, i) ==
    IF i > Len(s) THEN i
    ELSE IF s[i] # 0 THEN i
    ELSE AbsorbFrom(s, i + 1)

AbsorbPos(s, d) == IF Len(s) > 0 /\ s[1] >= d THEN 1 ELSE AbsorbFrom(s, 2)

\* C9: __sub_scalar returns true exactly when value(a) < b, leaves
\* (value(a) - b) mod 2^(BITS * len(a)) in a, and leaves every digit above
\* the first position that absorbs the borrow as it was.
SubScalarContract ==
    pc = "__sub_scalar" =>
        /\ ret <=> Value(a) < y
        /\ Len(ra) = Len(a)
        /\ Value(ra) = (Value(a) - y) % (Base ^ Len(a))
        /\ \A j \in 1 .. Len(a) : j > AbsorbPos(a, y) => ra[j] = a[j]

SubScalarEarlyStop ==
    /\ pc = "__sub_scalar"
    /\ a = <<0, 1, 3>>
    /\ y = 1
    /\ ra = <<Base - 1, 0, 3>>
    /\ ~ret

\* C10: from a borrow accumulator of 0 or -1, sbb returns a digit lo and
\* leaves the accumulator at 0 or -1 with a - b + acc_in = lo + acc_out *
\* 2^BITS, the accumulator never leaving its signed range on the way; so
\* along a chain of sbb calls from 0 the accumulator is 0 or -1 between calls.
SbbContract ==
    /\ ~ovf
    /\ pc = "sbb" =>
          /\ acc0 \in {0, -1}
          /\ acc \in {0, -1}
          /\ lo \in BigDigit
          /\ x - y + acc0 = lo + acc * Base
          /\ acc = -1 <=> x - y + acc0 < 0

SbbBorrowInAndOut ==
    /\ pc = "sbb"
    /\ acc0 = -1
    /\ x = 0
    /\ y = Base - 1
    /\ lo = 0
    /\ acc = -1

====
